---------------------------- MODULE Spec2Model ----------------------------
(***************************************************************************)
(* A model of gorilla/context, the request-scoped attribute store.         *)
(*                                                                         *)
(* Three variants of the package live in the repository:                   *)
(*   - the registry implementation (src/unnamed/part_002): a global map    *)
(*     request -> (key -> value) with a parallel map of creation           *)
(*     timestamps, guarded by one sync.RWMutex;                            *)
(*   - the attached-store implementation (src/context.go): the store hangs *)
(*     off a decorator that wraps the request's Body; no lock;             *)
(*   - the composite-key variant (src/unnamed/part_001): one map keyed by  *)
(*     the pair (request, key), a map of timestamps, one sync.Mutex.       *)
(*                                                                         *)
(* Specifications:                                                         *)
(*   Spec            registry, one caller, each operation one step         *)
(*   SpecHistory     Spec with the history of the operations kept          *)
(*   SpecHandler     the handler returned by ClearHandler, registry and    *)
(*                   attached store side by side                           *)
(*   SpecConc        registry, several goroutines, lock and body steps     *)
(*   SpecAttachedSeq attached store, one caller, each operation one step   *)
(*   SpecAttached    attached store, several goroutines on one request     *)
(*   SpecCtxt        composite-key variant, one caller, each operation one *)
(*                   step                                                  *)
(***************************************************************************)
EXTENDS Integers, Sequences, FiniteSets, TLC

(***************************************************************************)
(* Bounds of the model.                                                    *)
(***************************************************************************)
\* the wall clock (time.Now().Unix()) runs from 0 to MaxNow
MaxNow == 2
\* Purge is called with maxAge in -1 .. MaxAge
MaxAge == 2

\* *http.Request pointers a caller can hold
Requests == {"r1", "r2"}
\* keys (interface{} values compared with ==)
Keys == {"k1", "k2"}
\* the nil interface value
Nil == "nil"
\* values (interface{}), nil included
Values == {Nil, "1"}
\* the maxAge arguments of Purge
Ages == (0 - 1) .. MaxAge
\* the keys other than k, the requests other than r
OtherKeys(k) == Keys \ {k}
OtherRequests(r) == Requests \ {r}

(***************************************************************************)
(* Go maps.  A map value is either the nil map or a made map; reading a    *)
(* missing key (or reading the nil map) yields the zero value and ok =     *)
(* false.                                                                  *)
(***************************************************************************)
EmptyKV == [x \in {} |-> Nil]
\* the zero value of map[interface{}]interface{}
NilMap == [isnil |-> TRUE, kv |-> EmptyKV]
\* make(map[interface{}]interface{})
MakeMap == [isnil |-> FALSE, kv |-> EmptyKV]
\* m[k] = v on the key/value function of a map
Put(kv, k, v) == [x \in (DOMAIN kv) \cup {k} |-> IF x = k THEN v ELSE kv[x]]
\* delete(m, k) on the key/value function of a map
Remove(kv, k) == [x \in (DOMAIN kv) \ {k} |-> kv[x]]
\* v, ok := m[k] with zero value z
Lookup(kv, k, z) == IF k \in DOMAIN kv THEN <<kv[k], TRUE>> ELSE <<z, FALSE>>
\* len(m)
MapLen(kv) == Cardinality(DOMAIN kv)

\* what a call leaves in ret: the operation, its arguments (r, k, val for Set,
\* age for Purge), what it returned (val, ok, all, count) and, for Clear, the
\* map value data[r] that it removed
NoRet == [op |-> "none", r |-> "-", k |-> "-", val |-> Nil, ok |-> FALSE,
          all |-> NilMap, count |-> 0, age |-> 0, cleared |-> NilMap]

VARIABLES
    data,     \* registry: request -> map value (key -> value)
    datat,    \* registry: request -> creation timestamp (unix seconds)
    now,      \* the wall clock, in seconds
    ret,      \* the last call: operation, arguments and what it returned
    last,     \* history, kept when last.on: per (request, key) the last operation
              \* that affected it
    hpc,      \* the handler returned by ClearHandler: idle, running, returned, panicked
    hreq,     \* the request that handler was called with
    hset,     \* history: Set on hreq: "no", "running" (while the handler ran), "after"

    mutex,    \* the sync.RWMutex: the goroutine holding it for writing, those reading
    pc,       \* per goroutine: idle, lock, cs, cs2, unlock
    call,     \* per goroutine: the operation it is in and its arguments
    loc,      \* per goroutine: the values the operation is about to return
    obs,      \* history, per goroutine: what held when its critical section began
    lin,      \* history: the store as the operations in lock order leave it
    completed, \* history: per (request, key) the values of the Sets that finished
    body,     \* attached store: r.Body of each request: Orig or a decorator (its index)
    decorators, \* attached store: the decoratedReadCloser objects: body, attributes
    stores,   \* attached store: the attributeStore map objects made so far
    held,     \* the mapping a caller got from GetAll or GetAllOk and kept
    must      \* history: keys a finished Set left with no Delete or Clear since

handlerVars == <<hpc, hreq, hset>>
concVars == <<mutex, pc, call, loc, obs, lin, completed>>
heapVars == <<body, decorators, stores>>
attVars == <<heapVars, held, must>>
vars == <<data, datat, now, ret, last, handlerVars, concVars, attVars>>

(***************************************************************************)
(* Registry implementation: the operations.                                *)
(***************************************************************************)
\* data[r] as Go reads it: the nil map when r is not a key of data
DataAt(r) == Lookup(data, r, NilMap)[1]

\* Set taking the time at every call, not only when it makes the store
EnsureStoreStampsAlways(d, dt, r, t) ==
    IF Lookup(d, r, NilMap)[1].isnil
    THEN <<Put(d, r, MakeMap), Put(dt, r, t)>>
    ELSE <<d, Put(dt, r, t)>>

\* "if data[r] == nil { data[r] = make(...); datat[r] = time.Now().Unix() }"
\* on maps d and dt at time t: <<d, dt>> afterwards
EnsureStore(d, dt, r, t) ==
    IF Lookup(d, r, NilMap)[1].isnil
    THEN <<Put(d, r, MakeMap), Put(dt, r, t)>>
    ELSE <<d, dt>>

\* the assignment writing the key into the store of every registered request
StoreKeyShared(d, r, key, val) ==
    [x \in DOMAIN d |-> [isnil |-> FALSE, kv |-> Put(d[x].kv, key, val)]]

\* "data[r][key] = val" on map d, whose d[r] was made
StoreKey(d, r, key, val) ==
    Put(d, r, [isnil |-> FALSE, kv |-> Put(Lookup(d, r, NilMap)[1].kv, key, val)])

Set(r, key, val) ==
    LET e == EnsureStore(data, datat, r, now)
    IN  /\ data' = StoreKey(e[1], r, key, val)
        /\ datat' = e[2]

Get(r, key) ==
    LET ctx == DataAt(r)
    IN  IF ~ctx.isnil THEN Lookup(ctx.kv, key, Nil)[1] ELSE Nil

\* GetOk reporting presence by the value instead of by the map's ok
GetOkByValue(r, key) ==
    IF Lookup(data, r, NilMap)[2]
    THEN <<Lookup(data[r].kv, key, Nil)[1], Lookup(data[r].kv, key, Nil)[1] # Nil>>
    ELSE <<Nil, FALSE>>

GetOk(r, key) ==
    IF Lookup(data, r, NilMap)[2]
    THEN Lookup(data[r].kv, key, Nil)
    ELSE <<Nil, FALSE>>

\* the copy loop of GetAll and GetAllOk: a fresh map with context's pairs
CopyOf(context) == [isnil |-> FALSE, kv |-> [x \in DOMAIN context.kv |-> context.kv[x]]]

GetAll(r) ==
    LET l == Lookup(data, r, NilMap)
    IN  IF l[2] THEN CopyOf(l[1]) ELSE NilMap

GetAllOk(r) ==
    LET l == Lookup(data, r, NilMap)
    IN  <<CopyOf(l[1]), l[2]>>

Delete(r, key) ==
    /\ data' = IF ~DataAt(r).isnil
               THEN Put(data, r, [isnil |-> FALSE, kv |-> Remove(data[r].kv, key)])
               ELSE data
    /\ datat' = datat

\* clear forgetting the store: only the timestamp goes
clearTimestampOnly(d, dt, r) == <<d, Remove(dt, r)>>

\* clear forgetting the timestamp: only the store goes
clearStoreOnly(d, dt, r) == <<Remove(d, r), dt>>

\* clear is Clear without the lock, as a function of the two maps
clear(d, dt, r) == <<Remove(d, r), Remove(dt, r)>>

Clear(r) ==
    /\ data' = clear(data, datat, r)[1]
    /\ datat' = clear(data, datat, r)[2]

\* the loop of Purge with "<=" for "<": a request as old as the cutoff goes too
RECURSIVE PurgeLoopInclusive(_, _, _, _, _)
PurgeLoopInclusive(todo, d, dt, min, count) ==
    IF todo = {} THEN <<d, dt, count>>
    ELSE LET r == CHOOSE x \in todo : TRUE
         IN  IF Lookup(dt, r, 0)[1] <= min
             THEN PurgeLoopInclusive(todo \ {r}, Remove(d, r), Remove(dt, r),
                                     min, count + 1)
             ELSE PurgeLoopInclusive(todo \ {r}, d, dt, min, count)

\* the loop of Purge over the requests still to visit
RECURSIVE PurgeLoop(_, _, _, _, _)
PurgeLoop(todo, d, dt, min, count) ==
    IF todo = {} THEN <<d, dt, count>>
    ELSE LET r == CHOOSE x \in todo : TRUE
         IN  IF Lookup(dt, r, 0)[1] < min
             THEN PurgeLoop(todo \ {r}, clear(d, dt, r)[1], clear(d, dt, r)[2],
                            min, count + 1)
             ELSE PurgeLoop(todo \ {r}, d, dt, min, count)

\* Purge taking len(data) after it has replaced the map
PurgeResultCountLate(maxAge) ==
    IF maxAge <= 0
    THEN <<EmptyKV, EmptyKV, MapLen(EmptyKV)>>
    ELSE PurgeLoop(DOMAIN data, data, datat, now - maxAge, 0)

\* Purge replacing data alone when maxAge <= 0
PurgeResultTimestampsKept(maxAge) ==
    IF maxAge <= 0
    THEN <<EmptyKV, datat, MapLen(data)>>
    ELSE PurgeLoop(DOMAIN data, data, datat, now - maxAge, 0)

\* <<data, datat, count>> after Purge(maxAge)
PurgeResult(maxAge) ==
    IF maxAge <= 0
    THEN <<EmptyKV, EmptyKV, MapLen(data)>>
    ELSE PurgeLoop(DOMAIN data, data, datat, now - maxAge, 0)

Purge(maxAge) ==
    /\ data' = PurgeResult(maxAge)[1]
    /\ datat' = PurgeResult(maxAge)[2]

(***************************************************************************)
(* Spec: one caller, each operation one step.                              *)
(***************************************************************************)
InitRegistry ==
    /\ data = EmptyKV
    /\ datat = EmptyKV
    /\ now = 0

NoReq == "-"
NoHistory ==
    [on |-> FALSE,
     at |-> [r \in Requests |-> [k \in Keys |-> [kind |-> "never", val |-> Nil]]]]

InitHandler ==
    /\ hpc = "idle"
    /\ hreq = NoReq
    /\ hset = "no"

\* goroutines calling into the package at the same time
Procs == {"g1", "g2"}
NoProc == "-"
Unset == "unset"
NoCall == [op |-> "none", r |-> "-", k |-> "-", val |-> Nil, age |-> 0]
NoLoc == [val |-> Nil, ok |-> FALSE, all |-> NilMap, count |-> 0, atts |-> 0, dec |-> 0]
NoObs == [expect |-> Nil, begun |-> {}]

InitConc ==
    /\ mutex = [writer |-> NoProc, readers |-> {}]
    /\ pc = [g \in Procs |-> "idle"]
    /\ call = [g \in Procs |-> NoCall]
    /\ loc = [g \in Procs |-> NoLoc]
    /\ obs = [g \in Procs |-> NoObs]
    /\ lin = [r \in Requests |-> [k \in Keys |-> Unset]]
    /\ completed = [r \in Requests |-> [k \in Keys |-> {}]]

\* r.Body as the caller made the request: not a *decoratedReadCloser
Orig == 0
\* a nil *attributeStore, and the nil map GetAll returns
NilRef == 0
NoHeld == [ref |-> NilRef, r |-> NoReq, snap |-> EmptyKV]

InitAttached ==
    /\ body = [r \in Requests |-> Orig]
    /\ decorators = <<>>
    /\ stores = <<>>
    /\ held = NoHeld
    /\ must = {}

InitRest ==
    /\ InitRegistry
    /\ ret = NoRet
    /\ InitHandler
    /\ InitConc
    /\ InitAttached

Init == InitRest /\ last = NoHistory

\* the same, with the history of the operations kept
InitHistory == InitRest /\ last = [NoHistory EXCEPT !.on = TRUE]

\* what the steps of Spec leave alone
SpecFrame == UNCHANGED <<handlerVars, concVars, attVars>>

\* the history after an operation "kind" (with value val, for Set) on the keys
\* ks of the requests rs
Mark(rs, ks, kind, val) ==
    IF last.on
    THEN [last EXCEPT !.at =
            [r \in Requests |-> [k \in Keys |->
                IF r \in rs /\ k \in ks THEN [kind |-> kind, val |-> val]
                ELSE last.at[r][k]]]]
    ELSE last

CallSet ==
    \E r \in Requests, k \in Keys, v \in Values :
        /\ Set(r, k, v)
        /\ ret' = [NoRet EXCEPT !.op = "Set", !.r = r, !.k = k, !.val = v]
        /\ last' = Mark({r}, {k}, "set", v)
        /\ UNCHANGED now
        /\ SpecFrame

CallGet ==
    \E r \in Requests, k \in Keys :
        /\ ret' = [NoRet EXCEPT !.op = "Get", !.r = r, !.k = k, !.val = Get(r, k)]
        /\ UNCHANGED <<data, datat, now, last>>
        /\ SpecFrame

CallGetOk ==
    \E r \in Requests, k \in Keys :
        /\ ret' = [NoRet EXCEPT !.op = "GetOk", !.r = r, !.k = k,
                                !.val = GetOk(r, k)[1], !.ok = GetOk(r, k)[2]]
        /\ UNCHANGED <<data, datat, now, last>>
        /\ SpecFrame

CallGetAll ==
    \E r \in Requests :
        /\ ret' = [NoRet EXCEPT !.op = "GetAll", !.r = r, !.all = GetAll(r)]
        /\ UNCHANGED <<data, datat, now, last>>
        /\ SpecFrame

CallGetAllOk ==
    \E r \in Requests :
        /\ ret' = [NoRet EXCEPT !.op = "GetAllOk", !.r = r,
                                !.all = GetAllOk(r)[1], !.ok = GetAllOk(r)[2]]
        /\ UNCHANGED <<data, datat, now, last>>
        /\ SpecFrame

CallDelete ==
    \E r \in Requests, k \in Keys :
        /\ Delete(r, k)
        /\ ret' = [NoRet EXCEPT !.op = "Delete", !.r = r, !.k = k]
        /\ last' = Mark({r}, {k}, "delete", Nil)
        /\ UNCHANGED now
        /\ SpecFrame

CallClear ==
    \E r \in Requests :
        /\ Clear(r)
        /\ ret' = [NoRet EXCEPT !.op = "Clear", !.r = r, !.cleared = DataAt(r)]
        /\ last' = Mark({r}, Keys, "clear", Nil)
        /\ UNCHANGED now
        /\ SpecFrame

CallPurge ==
    \E maxAge \in Ages :
        /\ Purge(maxAge)
        /\ ret' = [NoRet EXCEPT !.op = "Purge", !.age = maxAge,
                                !.count = PurgeResult(maxAge)[3]]
        /\ last' = Mark((DOMAIN data) \ (DOMAIN data'), Keys, "purge", Nil)
        /\ UNCHANGED now
        /\ SpecFrame

\* a second passes on the wall clock
Tick ==
    /\ now < MaxNow
    /\ now' = now + 1
    /\ ret' = [NoRet EXCEPT !.op = "Tick"]
    /\ UNCHANGED <<data, datat, last>>
    /\ SpecFrame

Next ==
    \/ CallSet
    \/ CallGet
    \/ CallGetOk
    \/ CallGetAll
    \/ CallGetAllOk
    \/ CallDelete
    \/ CallClear
    \/ CallPurge
    \/ Tick

Spec == Init /\ [][Next]_vars

\* Spec with the history of the operations kept in last
SpecHistory == InitHistory /\ [][Next]_vars

(***************************************************************************)
(* Attached-store implementation (src/context.go): the operations, on a    *)
(* heap h = [body, decorators, stores].  A *decoratedReadCloser is the     *)
(* index of its object in decorators, an attributeStore (a Go map, hence a *)
(* reference) the index of its object in stores.                           *)
(***************************************************************************)
Heap == [body |-> body, decorators |-> decorators, stores |-> stores]

\* the heap h becomes the state
SetHeap(h) ==
    /\ body' = h.body
    /\ decorators' = h.decorators
    /\ stores' = h.stores

\* <<atts, ok>>: the store pointer of r's decorator, if r.Body is one
peekAttributes(h, r) ==
    IF h.body[r] # Orig
    THEN <<h.decorators[h.body[r]].attributes, TRUE>>
    ELSE <<NilRef, FALSE>>

\* wraps r.Body in a new decorator without a store; the heap afterwards (the
\* decorator is the last one)
decorate(h, r) ==
    [h EXCEPT !.decorators = Append(@, [body |-> h.body[r], attributes |-> NilRef]),
              !.body[r] = Len(h.decorators) + 1]

\* [heap, atts]: the heap afterwards and the store of r, made and attached if
\* r.Body was not decorated
attributes(h, r) ==
    IF peekAttributes(h, r)[2]
    THEN [heap |-> h, atts |-> peekAttributes(h, r)[1]]
    ELSE LET h1 == [h EXCEPT !.stores = Append(@, EmptyKV)]
             h2 == decorate(h1, r)
             h3 == [h2 EXCEPT !.decorators[Len(h2.decorators)].attributes = Len(h1.stores)]
         IN  [heap |-> h3, atts |-> Len(h1.stores)]

AttSet(r, key, val) ==
    LET a == attributes(Heap, r)
    IN  SetHeap([a.heap EXCEPT !.stores[a.atts] = Put(@, key, val)])

\* Get and GetOk: the state afterwards, and what they return
AttGet(r, key) == SetHeap(attributes(Heap, r).heap)

AttGetValue(r, key) ==
    LET a == attributes(Heap, r)
        l == Lookup(a.heap.stores[a.atts], key, Nil)
    IN  IF l[2] THEN l[1] ELSE Nil

AttGetOk(r, key) == SetHeap(attributes(Heap, r).heap)

AttGetOkValue(r, key) ==
    LET a == attributes(Heap, r)
    IN  Lookup(a.heap.stores[a.atts], key, Nil)

\* GetAll and GetAllOk return the store itself (*atts), or nil
AttGetAll(r) ==
    IF peekAttributes(Heap, r)[2] THEN peekAttributes(Heap, r)[1] ELSE NilRef

AttGetAllOk(r) ==
    IF peekAttributes(Heap, r)[2]
    THEN <<peekAttributes(Heap, r)[1], TRUE>>
    ELSE <<NilRef, FALSE>>

AttDelete(r, key) ==
    LET a == attributes(Heap, r)
    IN  SetHeap([a.heap EXCEPT !.stores[a.atts] = Remove(@, key)])

\* the loop of clear: every key of the store is deleted
RECURSIVE DeleteAll(_, _)
DeleteAll(kv, ks) ==
    IF ks = {} THEN kv
    ELSE LET k == CHOOSE x \in ks : TRUE
         IN  DeleteAll(Remove(kv, k), ks \ {k})

Attclear(r) ==
    LET a == attributes(Heap, r)
    IN  SetHeap([a.heap EXCEPT !.stores[a.atts] = DeleteAll(@, DOMAIN @)])

AttClear(r) == Attclear(r)

\* Purge does nothing and returns 0
AttPurge(maxAge) == UNCHANGED heapVars
AttPurgeValue(maxAge) == 0

\* the contents of the map a reference stands for; the nil map reads as empty
Deref(h, ref) == IF ref = NilRef THEN EmptyKV ELSE h.stores[ref]

(***************************************************************************)
(* SpecAttachedSeq: the attached-store implementation, one caller, each    *)
(* operation one step.  The caller may keep the mapping GetAll or GetAllOk *)
(* returned (held) and write to it.                                        *)
(***************************************************************************)
AttFrame == UNCHANGED <<data, datat, now, last, handlerVars, concVars, must>>

AttCallSet ==
    \E r \in Requests, k \in Keys, v \in Values :
        /\ AttSet(r, k, v)
        /\ ret' = [NoRet EXCEPT !.op = "Set", !.r = r, !.k = k, !.val = v]
        /\ UNCHANGED held
        /\ AttFrame

AttCallGet ==
    \E r \in Requests, k \in Keys :
        /\ AttGet(r, k)
        /\ ret' = [NoRet EXCEPT !.op = "Get", !.r = r, !.k = k, !.val = AttGetValue(r, k)]
        /\ UNCHANGED held
        /\ AttFrame

AttCallGetOk ==
    \E r \in Requests, k \in Keys :
        /\ AttGetOk(r, k)
        /\ ret' = [NoRet EXCEPT !.op = "GetOk", !.r = r, !.k = k,
                                !.val = AttGetOkValue(r, k)[1],
                                !.ok = AttGetOkValue(r, k)[2]]
        /\ UNCHANGED held
        /\ AttFrame

\* the caller keeps the mapping returned
AttCallGetAll ==
    \E r \in Requests :
        /\ ret' = [NoRet EXCEPT !.op = "GetAll", !.r = r]
        /\ held' = [ref |-> AttGetAll(r), r |-> r, snap |-> Deref(Heap, AttGetAll(r))]
        /\ UNCHANGED heapVars
        /\ AttFrame

AttCallGetAllOk ==
    \E r \in Requests :
        /\ ret' = [NoRet EXCEPT !.op = "GetAllOk", !.r = r, !.ok = AttGetAllOk(r)[2]]
        /\ held' = [ref |-> AttGetAllOk(r)[1], r |-> r,
                    snap |-> Deref(Heap, AttGetAllOk(r)[1])]
        /\ UNCHANGED heapVars
        /\ AttFrame

AttCallDelete ==
    \E r \in Requests, k \in Keys :
        /\ AttDelete(r, k)
        /\ ret' = [NoRet EXCEPT !.op = "Delete", !.r = r, !.k = k]
        /\ UNCHANGED held
        /\ AttFrame

AttCallClear ==
    \E r \in Requests :
        /\ AttClear(r)
        /\ ret' = [NoRet EXCEPT !.op = "Clear", !.r = r]
        /\ UNCHANGED held
        /\ AttFrame

AttCallPurge ==
    \E maxAge \in {0, 1} :
        /\ AttPurge(maxAge)
        /\ ret' = [NoRet EXCEPT !.op = "Purge", !.age = maxAge,
                                !.count = AttPurgeValue(maxAge)]
        /\ UNCHANGED held
        /\ AttFrame

\* the caller writes to the mapping it holds: m[k] = v
CallerWrite ==
    \E k \in Keys, v \in Values :
        /\ held.ref # NilRef
        /\ stores' = [stores EXCEPT ![held.ref] = Put(@, k, v)]
        /\ ret' = [NoRet EXCEPT !.op = "CallerWrite", !.r = held.r, !.k = k, !.val = v]
        /\ UNCHANGED <<body, decorators, held>>
        /\ AttFrame

NextAttachedSeq ==
    \/ AttCallSet
    \/ AttCallGet
    \/ AttCallGetOk
    \/ AttCallGetAll
    \/ AttCallGetAllOk
    \/ AttCallDelete
    \/ AttCallClear
    \/ AttCallPurge
    \/ CallerWrite

SpecAttachedSeq == Init /\ [][NextAttachedSeq]_vars

\* C10 (as claimed): the mapping GetAll(r) or GetAllOk(r) returned is a copy -
\* a later Set, Delete or Clear does not change the mapping the caller holds,
\* and a write of the caller to that mapping changes neither what Get and
\* GetOk return for any request and key nor what GetAll returns.
C10_GetAllIsCopy ==
    [][(held.ref # NilRef /\ held' = held)
         => /\ ret'.op \in {"Set", "Delete", "Clear"}
                 => Deref(Heap, held.ref)' = Deref(Heap, held.ref)
            /\ ret'.op = "CallerWrite"
                 => \A r \in Requests :
                      /\ Deref(Heap, AttGetAll(r))' = Deref(Heap, AttGetAll(r))
                      /\ \A k \in Keys : AttGetOkValue(r, k)' = AttGetOkValue(r, k)
      ]_vars

\* C11 (as claimed): Delete(r,k) and Clear(r) on a request for which no store
\* has been created are no-ops - the body is not wrapped and no store is made,
\* so GetAll(r) still returns nil and GetAllOk(r) still reports false.
C11_DeleteClearNoOp ==
    [][\A r \in Requests :
         (ret'.op \in {"Delete", "Clear"} /\ ret'.r = r /\ ~peekAttributes(Heap, r)[2])
           => /\ UNCHANGED heapVars
              /\ AttGetAll(r)' = NilRef
              /\ ~AttGetAllOk(r)'[2]
      ]_vars

\* C14 (as claimed): Purge does what its documentation states - Purge(maxAge)
\* with maxAge <= 0 removes all request data, so that no key set before is
\* retrievable for any request, and returns the number of requests whose data
\* it removed (the requests that had a store).
C14_PurgeAsDocumented ==
    [][(ret'.op = "Purge" /\ ret'.age <= 0)
         => /\ \A r \in Requests, k \in Keys : AttGetOkValue(r, k)' = <<Nil, FALSE>>
            /\ ret'.count = Cardinality({r \in Requests : peekAttributes(Heap, r)[2]})
      ]_vars

\* C19 (as claimed): Get and GetOk are read-only - a call on a request, with a
\* store or without one, leaves the request and its store unchanged, so
\* GetAll(r) and GetAllOk(r) return the same before and after the call.
C19_GetReadOnly ==
    [][\A r \in Requests :
         (ret'.op \in {"Get", "GetOk"} /\ ret'.r = r)
           => /\ UNCHANGED heapVars
              /\ AttGetAll(r)' = AttGetAll(r)
              /\ AttGetAllOk(r)' = AttGetAllOk(r)
      ]_vars

(***************************************************************************)
(* SpecHandler: the handler returned by ClearHandler(h).  The registry     *)
(* implementation and the attached-store implementation define it by the   *)
(* same code; the two run side by side here, each on its own state, with   *)
(* the same calls.  ServeHTTP enters the handler with a request r, which   *)
(* registers the deferred Clear(r) and runs h on r; while it runs (and     *)
(* before and after) Set, Delete, GetOk and GetAllOk are called on any     *)
(* request; it is left by h returning or by h panicking.                   *)
(***************************************************************************)
Finished == {"returned", "panicked"}
HandlerFrame == UNCHANGED <<now, last, concVars, held, must>>

ServeHTTP ==
    \E r \in Requests :
        /\ hpc # "running"
        /\ hpc' = "running"
        /\ hreq' = r
        /\ hset' = "no"
        /\ ret' = [NoRet EXCEPT !.op = "ServeHTTP", !.r = r]
        /\ UNCHANGED <<data, datat, heapVars>>
        /\ HandlerFrame

\* the wrapper with "h.ServeHTTP(w, r); Clear(r)" for the defer: a panic of h
\* leaves the wrapper before Clear
ClearHandlerExitNoDefer(how) ==
    /\ hpc = "running"
    /\ IF how = "return" THEN Clear(hreq) ELSE UNCHANGED <<data, datat>>
    /\ hpc' = IF how = "return" THEN "returned" ELSE "panicked"

\* registry implementation: h leaves by how = "return" or how = "panic": the
\* deferred Clear(r) runs, then the wrapper returns or the panic goes on
ClearHandlerExit(how) ==
    /\ hpc = "running"
    /\ Clear(hreq)
    /\ hpc' = IF how = "return" THEN "returned" ELSE "panicked"

\* attached-store implementation: the same, with its Clear
AttClearHandlerExit(how) ==
    /\ hpc = "running"
    /\ AttClear(hreq)
    /\ hpc' = IF how = "return" THEN "returned" ELSE "panicked"

HandlerExit ==
    \E how \in {"return", "panic"} :
        /\ ClearHandlerExit(how)
        /\ AttClearHandlerExit(how)
        /\ ret' = [NoRet EXCEPT !.op = "Exit", !.r = hreq, !.cleared = DataAt(hreq)]
        /\ UNCHANGED <<hreq, hset>>
        /\ HandlerFrame

HandlerSet ==
    \E r \in Requests, k \in Keys, v \in Values :
        /\ Set(r, k, v)
        /\ AttSet(r, k, v)
        /\ ret' = [NoRet EXCEPT !.op = "Set", !.r = r, !.k = k, !.val = v]
        /\ hset' = IF r # hreq THEN hset
                   ELSE IF hpc \in Finished THEN "after"
                   ELSE IF hpc = "running" /\ hset = "no" THEN "running"
                   ELSE hset
        /\ UNCHANGED <<hpc, hreq>>
        /\ HandlerFrame

HandlerDelete ==
    \E r \in Requests, k \in Keys :
        /\ Delete(r, k)
        /\ AttDelete(r, k)
        /\ ret' = [NoRet EXCEPT !.op = "Delete", !.r = r, !.k = k]
        /\ UNCHANGED handlerVars
        /\ HandlerFrame

\* ret holds what the registry's GetOk returns, loc of the first goroutine
\* is not used: the attached store's answer is AttGetOkValue
HandlerGetOk ==
    \E r \in Requests, k \in Keys :
        /\ AttGetOk(r, k)
        /\ ret' = [NoRet EXCEPT !.op = "GetOk", !.r = r, !.k = k,
                                !.val = GetOk(r, k)[1], !.ok = GetOk(r, k)[2]]
        /\ UNCHANGED <<data, datat, handlerVars>>
        /\ HandlerFrame

HandlerGetAllOk ==
    \E r \in Requests :
        /\ ret' = [NoRet EXCEPT !.op = "GetAllOk", !.r = r,
                                !.all = GetAllOk(r)[1], !.ok = GetAllOk(r)[2]]
        /\ UNCHANGED <<data, datat, heapVars, handlerVars>>
        /\ HandlerFrame

NextHandler ==
    \/ ServeHTTP
    \/ HandlerExit
    \/ HandlerSet
    \/ HandlerDelete
    \/ HandlerGetOk
    \/ HandlerGetAllOk

SpecHandler == Init /\ [][NextHandler]_vars

\* C3: once the handler returned by ClearHandler(h) has finished - h returned
\* or h panicked - and unless Set was called on its request r afterwards: in
\* the registry implementation r has neither a store nor a timestamp, no key
\* of r is retrievable, and the GetOk and GetAllOk calls made then on r report
\* nothing; in the attached-store implementation no key of r is retrievable.
C3_ClearAfterHandler ==
    (hpc \in Finished /\ hset # "after")
      => /\ hreq \notin DOMAIN data
         /\ hreq \notin DOMAIN datat
         /\ \A k \in Keys : Get(hreq, k) = Nil /\ GetOk(hreq, k) = <<Nil, FALSE>>
         /\ GetAll(hreq) = NilMap
         /\ (ret.op \in {"GetOk", "GetAllOk"} /\ ret.r = hreq)
               => (ret.val = Nil /\ ~ret.ok)
         /\ \A k \in Keys : /\ AttGetValue(hreq, k) = Nil
                            /\ AttGetOkValue(hreq, k) = <<Nil, FALSE>>
         /\ MapLen(Deref(Heap, AttGetAll(hreq))) = 0

\* C3 witness: h set a key of r while it ran and then panicked; GetOk on r has
\* returned (nil, false) since, and the other request kept its store, in the
\* registry and attached to its body.
C3_Witness ==
    /\ hpc = "panicked" /\ hset = "running"
    /\ ret.op = "GetOk" /\ ret.r = hreq /\ ~ret.ok
    /\ \E r \in OtherRequests(hreq) :
          /\ r \in DOMAIN data /\ MapLen(data[r].kv) > 0
          /\ MapLen(Deref(Heap, AttGetAll(r))) > 0

(***************************************************************************)
(* Claims about the registry implementation, one caller (Spec).            *)
(***************************************************************************)
\* C1: once Set(r,k,v) has returned, and as long as no Set(r,k,_), Delete(r,k),
\* Clear(r) or Purge removing r has followed, Get(r,k) returns v and GetOk(r,k)
\* returns (v, true), also for v = nil: in every state and for every (r,k)
\* whose last affecting operation is Set(r,k,v), and for the Get or GetOk call
\* that has just returned.
C1_SetThenGet ==
    /\ \A r \in Requests, k \in Keys :
          last.at[r][k].kind = "set"
            => /\ Get(r, k) = last.at[r][k].val
               /\ GetOk(r, k) = <<last.at[r][k].val, TRUE>>
    /\ (ret.op = "Get" /\ last.at[ret.r][ret.k].kind = "set")
          => ret.val = last.at[ret.r][ret.k].val
    /\ (ret.op = "GetOk" /\ last.at[ret.r][ret.k].kind = "set")
          => (ret.val = last.at[ret.r][ret.k].val /\ ret.ok)

\* C1 witness: GetOk has just returned (nil, true) for a key set to nil, while
\* another key of the request was deleted and another request was purged.
C1_Witness ==
    /\ ret.op = "GetOk" /\ ret.val = Nil /\ ret.ok
    /\ last.at[ret.r][ret.k] = [kind |-> "set", val |-> Nil]
    /\ \E k \in OtherKeys(ret.k) : last.at[ret.r][k].kind = "delete"
    /\ \E r \in OtherRequests(ret.r), k \in Keys : last.at[r][k].kind = "purge"

\* C2: for every (r,k) never set, or whose last affecting operation was
\* Delete(r,k), Clear(r) or a Purge that removed r, Get(r,k) returns nil and
\* GetOk(r,k) returns (nil, false).
C2_UnsetIsAbsent ==
    /\ \A r \in Requests, k \in Keys :
          last.at[r][k].kind \in {"never", "delete", "clear", "purge"}
            => /\ Get(r, k) = Nil
               /\ GetOk(r, k) = <<Nil, FALSE>>
    /\ (ret.op \in {"Get", "GetOk"} /\ last.at[ret.r][ret.k].kind # "set")
          => (ret.val = Nil /\ ~ret.ok)

\* C2 witness: GetOk has just returned (nil, false) for a key of a request
\* that Purge removed, the request being registered again since (another of
\* its keys is set), while a third key was deleted and one never set.
C2_Witness ==
    /\ ret.op = "GetOk" /\ ret.val = Nil /\ ~ret.ok
    /\ last.at[ret.r][ret.k].kind = "purge"
    /\ \E k \in OtherKeys(ret.k) : last.at[ret.r][k] = [kind |-> "set", val |-> "1"]
    /\ \E r \in OtherRequests(ret.r) :
          \E k1, k2 \in Keys : last.at[r][k1].kind = "delete" /\ last.at[r][k2].kind = "clear"

\* C12 (as claimed): GetAll and GetAllOk tell an empty store from no store -
\* for a request with no store GetAll returns nil and GetAllOk (nil, false);
\* for a request with a store that holds no key GetAll returns an empty
\* non-nil mapping and GetAllOk (that mapping, true); and for every request
\* the mapping GetAllOk returns is the one GetAll returns.
C12_GetAllTellsEmptyFromNone ==
    [][\A r \in Requests :
         /\ (ret'.op = "GetAll" /\ ret'.r = r)
              => /\ r \notin DOMAIN data => ret'.all = NilMap
                 /\ (r \in DOMAIN data /\ MapLen(DataAt(r).kv) = 0)
                      => ret'.all = MakeMap
         /\ (ret'.op = "GetAllOk" /\ ret'.r = r)
              => /\ r \notin DOMAIN data => ret'.all = NilMap /\ ~ret'.ok
                 /\ (r \in DOMAIN data /\ MapLen(DataAt(r).kv) = 0)
                      => ret'.all = MakeMap /\ ret'.ok
                 /\ ret'.all = GetAll(r)
      ]_vars

\* C13: Set, Delete and Clear on a request r1 leave the store and the creation
\* timestamp of every other request r2 unchanged - Get(r2,k), GetOk(r2,k) and
\* GetAll(r2) return the same before and after, for every key k, the key r1
\* used included.
C13_OtherRequestsUntouched ==
    [][\A r1 \in Requests :
         (ret'.op \in {"Set", "Delete", "Clear"} /\ ret'.r = r1)
           => \A r2 \in OtherRequests(r1) :
                /\ Lookup(data, r2, NilMap)' = Lookup(data, r2, NilMap)
                /\ Lookup(datat, r2, 0)' = Lookup(datat, r2, 0)
                /\ GetAll(r2)' = GetAll(r2)
                /\ \A k \in Keys : /\ Get(r2, k)' = Get(r2, k)
                                   /\ GetOk(r2, k)' = GetOk(r2, k)
      ]_vars

\* Set(r1,k,nil) was called while r2 held "1" under the same key k
C13_Witness ==
    \E r1 \in Requests : \E r2 \in OtherRequests(r1) : \E k \in Keys :
        /\ ret.op = "Set" /\ ret.r = r1 /\ ret.k = k /\ ret.val = Nil
        /\ GetOk(r1, k) = <<Nil, TRUE>>
        /\ GetOk(r2, k) = <<"1", TRUE>>

\* C17: the creation timestamp of a request is recorded by the Set that makes
\* its store (the time of that Set), no later operation on this or another
\* request changes it, and it goes only when Clear or Purge removes the
\* request; a Set after that records the time anew.
C17_TimestampImmutable ==
    [][\A r \in Requests :
         /\ (r \in DOMAIN datat /\ r \in DOMAIN datat') => datat'[r] = datat[r]
         /\ (r \in DOMAIN datat /\ r \notin DOMAIN datat')
              => \/ ret'.op = "Clear" /\ ret'.r = r
                 \/ ret'.op = "Purge"
         /\ (r \notin DOMAIN datat /\ r \in DOMAIN datat')
              => ret'.op = "Set" /\ ret'.r = r /\ datat'[r] = now
      ]_vars

\* a Set on a request whose store was made earlier, at time 0, and holds both
\* keys; the other request got its timestamp later
C17_Witness ==
    \E r \in Requests : \E q \in OtherRequests(r) :
        /\ ret.op = "Set" /\ ret.r = r
        /\ r \in DOMAIN datat /\ datat[r] = 0 /\ now = MaxNow
        /\ MapLen(DataAt(r).kv) = 2
        /\ q \in DOMAIN datat /\ datat[q] > 0

\* C18: data and datat have the same requests as keys - a request has a store,
\* empty or not, exactly when it has a creation timestamp - in every state
\* that Set, Delete, Clear and Purge lead to.
C18_SameRequests == DOMAIN data = DOMAIN datat

\* Delete has emptied the store of a request, which keeps its store and its
\* timestamp, while the other request has neither
C18_Witness ==
    \E r \in Requests : \E q \in OtherRequests(r) :
        /\ ret.op = "Delete" /\ ret.r = r
        /\ r \in DOMAIN data /\ MapLen(data[r].kv) = 0
        /\ r \in DOMAIN datat /\ datat[r] = MaxNow
        /\ q \notin DOMAIN data /\ q \notin DOMAIN datat

\* C4: Clear(r) removes r from data and from datat; afterwards GetAll(r) is nil
\* and GetAllOk(r) reports false; when r was the only registered request,
\* len(data) = 0 after it.
C4_ClearRemovesEntry ==
    [][\A r \in Requests :
         (ret'.op = "Clear" /\ ret'.r = r)
           => /\ r \notin DOMAIN data'
              /\ r \notin DOMAIN datat'
              /\ GetAll(r)' = NilMap
              /\ GetAllOk(r)'[2] = FALSE
              /\ (DOMAIN data \subseteq {r} => MapLen(data') = 0)
      ]_vars

\* C4 witness: Clear has just removed the only registered request, which had
\* two keys.
C4_Witness ==
    /\ ret.op = "Clear"
    /\ ~ret.cleared.isnil /\ MapLen(ret.cleared.kv) = 2
    /\ MapLen(data) = 0

\* C5: Purge(maxAge) with maxAge <= 0 empties data and datat whatever the
\* timestamps are and returns the number of requests registered just before;
\* afterwards GetAll of each of them is nil.
C5_PurgeAll ==
    [][(ret'.op = "Purge" /\ ret'.age <= 0)
         => /\ MapLen(data') = 0
            /\ MapLen(datat') = 0
            /\ ret'.count = Cardinality(DOMAIN data)
            /\ \A r \in DOMAIN data : GetAll(r)' = NilMap
      ]_vars

\* C5 witness: Purge(maxAge <= 0) has just returned 2, one of the two requests
\* having been created in the current second.
C5_Witness ==
    /\ ret.op = "Purge" /\ ret.age <= 0 /\ ret.count = 2
    /\ MapLen(data) = 0
    /\ now > 0

\* the requests Purge(maxAge) is to remove: timestamp strictly below now - maxAge
Stale(maxAge) == {r \in DOMAIN data : Lookup(datat, r, 0)[1] < now - maxAge}

\* C6: Purge(maxAge) with maxAge > 0 removes exactly the requests whose
\* timestamp is strictly less than now - maxAge, keeps every other request
\* (one whose timestamp equals the cutoff included) with its store and
\* timestamp unchanged, and returns the number it removed.
C6_PurgeOld ==
    [][\A maxAge \in 1 .. MaxAge :
         (ret'.op = "Purge" /\ ret'.age = maxAge)
           => /\ DOMAIN data' = (DOMAIN data) \ Stale(maxAge)
              /\ DOMAIN datat' = (DOMAIN datat) \ Stale(maxAge)
              /\ \A r \in (DOMAIN data) \ Stale(maxAge) : data'[r] = data[r]
              /\ \A r \in (DOMAIN datat) \ Stale(maxAge) : datat'[r] = datat[r]
              /\ ret'.count = Cardinality(Stale(maxAge))
      ]_vars

\* C6 witness: Purge(maxAge > 0) has just removed one request and kept the
\* other, whose timestamp equals the cutoff and whose store is not empty.
C6_Witness ==
    /\ ret.op = "Purge" /\ ret.age > 0 /\ ret.count = 1
    /\ \E r \in DOMAIN data :
          /\ datat[r] = now - ret.age
          /\ MapLen(data[r].kv) > 0

(***************************************************************************)
(* SpecConc: the registry implementation called by several goroutines.     *)
(* An operation is: call it, acquire the mutex (Lock or RLock), run the    *)
(* body, release the mutex and return.  The body of Set is two steps (the  *)
(* if statement, then the store), the others one.                          *)
(***************************************************************************)
\* the request the goroutines share, and the maxAge they pass to Purge
ConcRequests == {"r1"}
ConcAges == {0, 1}

ConcCalls ==
    {[NoCall EXCEPT !.op = "Set", !.r = r, !.k = k, !.val = v] :
        r \in ConcRequests, k \in Keys, v \in Values}
    \cup {[NoCall EXCEPT !.op = o, !.r = r, !.k = k] :
        o \in {"Get", "GetOk", "Delete"}, r \in ConcRequests, k \in Keys}
    \cup {[NoCall EXCEPT !.op = o, !.r = r] :
        o \in {"GetAll", "GetAllOk", "Clear"}, r \in ConcRequests}
    \cup {[NoCall EXCEPT !.op = "Purge", !.age = a] : a \in ConcAges}

\* Set taking the read lock
LockModeSetReads(op) == IF op \in {"Delete", "Clear", "Purge"} THEN "w" ELSE "r"

\* Delete taking the read lock
LockModeDeleteReads(op) == IF op \in {"Set", "Clear", "Purge"} THEN "w" ELSE "r"

\* the lock each operation takes: mutex.Lock() ("w") or mutex.RLock() ("r")
LockMode(op) == IF op \in {"Set", "Delete", "Clear", "Purge"} THEN "w" ELSE "r"

\* sync.RWMutex: Lock waits for the writer and the readers to leave, RLock for
\* the writer (a reader that a waiting writer holds back is not modelled: the
\* model lets it in, which only adds behaviours)
CanLock == mutex.writer = NoProc /\ mutex.readers = {}
CanRLock == mutex.writer = NoProc

\* the history lin after operation c, in whose critical section the state is
\* <<data, datat, now>>
LinAfter(c) ==
    LET gone == IF c.age <= 0 THEN Requests
                ELSE {r \in DOMAIN data : Lookup(datat, r, 0)[1] < now - c.age}
    IN  CASE c.op = "Set" -> [lin EXCEPT ![c.r][c.k] = c.val]
          [] c.op = "Delete" -> [lin EXCEPT ![c.r][c.k] = Unset]
          [] c.op = "Clear" -> [lin EXCEPT ![c.r] = [k \in Keys |-> Unset]]
          [] c.op = "Purge" ->
                [r \in Requests |-> IF r \in gone THEN [k \in Keys |-> Unset] ELSE lin[r]]
          [] OTHER -> lin

\* what a Get of c's request and key returns according to lin
LinGet(c) ==
    IF c.r \in Requests /\ c.k \in Keys /\ lin[c.r][c.k] # Unset
    THEN lin[c.r][c.k]
    ELSE Nil

\* what the steps of SpecConc leave alone
ConcFrame == UNCHANGED <<ret, last, handlerVars, attVars>>

Begin(g) ==
    /\ pc[g] = "idle"
    /\ \E c \in ConcCalls : call' = [call EXCEPT ![g] = c]
    /\ pc' = [pc EXCEPT ![g] = "lock"]
    /\ UNCHANGED <<data, datat, now, mutex, loc, obs, lin, completed>>
    /\ ConcFrame

Acquire(g) ==
    /\ pc[g] = "lock"
    /\ IF LockMode(call[g].op) = "w"
       THEN CanLock /\ mutex' = [mutex EXCEPT !.writer = g]
       ELSE CanRLock /\ mutex' = [mutex EXCEPT !.readers = @ \cup {g}]
    /\ pc' = [pc EXCEPT ![g] = "cs"]
    /\ obs' = [obs EXCEPT ![g] =
                 [expect |-> LinGet(call[g]),
                  begun |-> IF call[g].op \in {"Get", "GetOk"}
                            THEN completed[call[g].r][call[g].k] ELSE {}]]
    /\ UNCHANGED <<data, datat, now, call, loc, lin, completed>>
    /\ ConcFrame

\* Set, lines 22-25
SetMake(g) ==
    /\ pc[g] = "cs" /\ call[g].op = "Set"
    /\ data' = EnsureStore(data, datat, call[g].r, now)[1]
    /\ datat' = EnsureStore(data, datat, call[g].r, now)[2]
    /\ pc' = [pc EXCEPT ![g] = "cs2"]
    /\ UNCHANGED <<now, mutex, call, loc, obs, lin, completed>>
    /\ ConcFrame

\* Set, line 26
SetStore(g) ==
    /\ pc[g] = "cs2"
    /\ data' = StoreKey(data, call[g].r, call[g].k, call[g].val)
    /\ lin' = LinAfter(call[g])
    /\ pc' = [pc EXCEPT ![g] = "unlock"]
    /\ UNCHANGED <<datat, now, mutex, call, loc, obs, completed>>
    /\ ConcFrame

ReadBody(g) ==
    LET c == call[g]
    IN  /\ pc[g] = "cs" /\ c.op \in {"Get", "GetOk", "GetAll", "GetAllOk"}
        /\ loc' = [loc EXCEPT ![g] =
                     CASE c.op = "Get" -> [NoLoc EXCEPT !.val = Get(c.r, c.k)]
                       [] c.op = "GetOk" -> [NoLoc EXCEPT !.val = GetOk(c.r, c.k)[1],
                                                          !.ok = GetOk(c.r, c.k)[2]]
                       [] c.op = "GetAll" -> [NoLoc EXCEPT !.all = GetAll(c.r)]
                       [] OTHER -> [NoLoc EXCEPT !.all = GetAllOk(c.r)[1],
                                                 !.ok = GetAllOk(c.r)[2]]]
        /\ pc' = [pc EXCEPT ![g] = "unlock"]
        /\ UNCHANGED <<data, datat, now, mutex, call, obs, lin, completed>>
        /\ ConcFrame

WriteBody(g) ==
    LET c == call[g]
    IN  /\ pc[g] = "cs" /\ c.op \in {"Delete", "Clear", "Purge"}
        /\ CASE c.op = "Delete" -> Delete(c.r, c.k) /\ loc' = loc
             [] c.op = "Clear" -> Clear(c.r) /\ loc' = loc
             [] OTHER -> /\ Purge(c.age)
                         /\ loc' = [loc EXCEPT ![g] =
                                      [NoLoc EXCEPT !.count = PurgeResult(c.age)[3]]]
        /\ lin' = LinAfter(c)
        /\ pc' = [pc EXCEPT ![g] = "unlock"]
        /\ UNCHANGED <<now, mutex, call, obs, completed>>
        /\ ConcFrame

\* Delete returning without mutex.Unlock()
UnlockNotInDelete(g, op) ==
    IF op = "Delete" THEN mutex
    ELSE IF LockMode(op) = "w"
         THEN [mutex EXCEPT !.writer = NoProc]
         ELSE [mutex EXCEPT !.readers = @ \ {g}]

\* the mutex after g's mutex.Unlock() or (deferred) mutex.RUnlock()
Unlock(g, op) ==
    IF LockMode(op) = "w"
    THEN [mutex EXCEPT !.writer = NoProc]
    ELSE [mutex EXCEPT !.readers = @ \ {g}]

\* the operation releases the mutex and returns what loc holds
Release(g) ==
    LET c == call[g]
    IN  /\ pc[g] = "unlock"
        /\ mutex' = Unlock(g, c.op)
        /\ completed' = IF c.op = "Set"
                        THEN [completed EXCEPT ![c.r][c.k] = @ \cup {c.val}]
                        ELSE completed
        /\ pc' = [pc EXCEPT ![g] = "idle"]
        /\ call' = [call EXCEPT ![g] = NoCall]
        /\ loc' = [loc EXCEPT ![g] = NoLoc]
        /\ obs' = [obs EXCEPT ![g] = NoObs]
        /\ UNCHANGED <<data, datat, now, lin>>
        /\ ConcFrame

ConcTick ==
    /\ now < MaxNow
    /\ now' = now + 1
    /\ UNCHANGED <<data, datat, concVars>>
    /\ ConcFrame

NextConc ==
    \/ \E g \in Procs :
         \/ Begin(g)
         \/ Acquire(g)
         \/ SetMake(g)
         \/ SetStore(g)
         \/ ReadBody(g)
         \/ WriteBody(g)
         \/ Release(g)
    \/ ConcTick

SpecConc == Init /\ [][NextConc]_vars

InCS == {"cs", "cs2", "unlock"}
WriteOps == {"Set", "Delete", "Clear", "Purge"}
ReadOps == {"Get", "GetOk", "GetAll", "GetAllOk"}

\* C7: with goroutines calling Set, Get and Delete (and the other operations)
\* on one request, what a Get(r,k) is about to return is the value the
\* operations before it in lock order left for (r,k) - nil when that is none -
\* and is nil or the value of a Set(r,k,_) that had released the mutex before
\* the Get acquired it.
C7_GetSeesCompletedSet ==
    \A g \in Procs :
        (pc[g] = "unlock" /\ call[g].op = "Get")
          => /\ loc[g].val = obs[g].expect
             /\ (loc[g].val = Nil \/ loc[g].val \in obs[g].begun)

\* C7 witness: a Get is about to return "1" while the other goroutine waits in
\* Lock to Set the same key of the same request to nil.
C7_Witness ==
    \E g \in Procs, h \in Procs :
        /\ g # h
        /\ pc[g] = "unlock" /\ call[g].op = "Get" /\ loc[g].val = "1"
        /\ pc[h] = "lock" /\ call[h].op = "Set" /\ call[h].val = Nil
        /\ call[h].r = call[g].r /\ call[h].k = call[g].k

\* C8: a goroutine is between acquiring and releasing (where it reads or
\* writes data and datat) only while it holds the mutex - as the writer for Set,
\* Delete, Clear and Purge, as a reader for Get, GetOk, GetAll and GetAllOk; a
\* writer is never there together with another goroutine.
C8_MutualExclusion ==
    /\ \A g \in Procs :
          pc[g] \in InCS
            => /\ call[g].op \in WriteOps => mutex.writer = g
               /\ call[g].op \in ReadOps => g \in mutex.readers
    /\ \A g \in Procs, h \in Procs :
          (g # h /\ pc[g] \in InCS /\ pc[h] \in InCS)
            => (call[g].op \in ReadOps /\ call[h].op \in ReadOps)
    /\ mutex.writer # NoProc => mutex.readers = {}

\* C8 witness: two readers are in their critical sections at the same time.
C8_Witness ==
    \E g \in Procs, h \in Procs :
        /\ g # h
        /\ pc[g] = "unlock" /\ call[g].op = "Get"
        /\ pc[h] = "cs" /\ call[h].op = "GetAllOk"
        /\ mutex.readers = {g, h}

\* g holds the mutex, as the writer or as a reader
Holds(g) == mutex.writer = g \/ g \in mutex.readers

AttCalls ==
    {[NoCall EXCEPT !.op = "Set", !.r = r, !.k = k, !.val = v] :
        r \in ConcRequests, k \in Keys, v \in Values}
    \cup {[NoCall EXCEPT !.op = o, !.r = r, !.k = k] :
        o \in {"Get", "GetOk", "Delete"}, r \in ConcRequests, k \in Keys}
    \cup {[NoCall EXCEPT !.op = "Clear", !.r = r] : r \in ConcRequests}

AttConcFrame == UNCHANGED <<data, datat, now, ret, last, handlerVars,
                            mutex, obs, lin, completed, held>>

\* the goroutine calls an operation; a Delete or Clear that begins ends the
\* guarantee of the Sets before it
AttBegin(g) ==
    /\ pc[g] = "idle"
    /\ \E c \in AttCalls :
          /\ call' = [call EXCEPT ![g] = c]
          /\ must' = CASE c.op = "Delete" -> must \ {c.k}
                       [] c.op = "Clear" -> {}
                       [] OTHER -> must
    /\ pc' = [pc EXCEPT ![g] = "peek"]
    /\ UNCHANGED <<heapVars, loc>>
    /\ AttConcFrame

\* attributes, line 34: peekAttributes, and *atts when r.Body is a decorator
\* (a nil atts, of a decorator whose store is not attached yet, panics)
AttPeek(g) ==
    LET p == peekAttributes(Heap, call[g].r)
    IN  /\ pc[g] = "peek"
        /\ IF ~p[2] THEN pc' = [pc EXCEPT ![g] = "decorate"] /\ loc' = loc
           ELSE IF p[1] = NilRef THEN pc' = [pc EXCEPT ![g] = "panic"] /\ loc' = loc
           ELSE /\ pc' = [pc EXCEPT ![g] = "op"]
                /\ loc' = [loc EXCEPT ![g] = [NoLoc EXCEPT !.atts = p[1]]]
        /\ UNCHANGED <<heapVars, call, must>>
        /\ AttConcFrame

\* attributes, lines 38-41: make the store, decorate the request
AttDecorate(g) ==
    LET h1 == [Heap EXCEPT !.stores = Append(@, EmptyKV)]
        h2 == decorate(h1, call[g].r)
    IN  /\ pc[g] = "decorate"
        /\ SetHeap(h2)
        /\ loc' = [loc EXCEPT ![g] = [NoLoc EXCEPT !.atts = Len(h1.stores),
                                                   !.dec = Len(h2.decorators)]]
        /\ pc' = [pc EXCEPT ![g] = "attach"]
        /\ UNCHANGED <<call, must>>
        /\ AttConcFrame

\* attributes, line 42: decorator.attributes = &atts
AttAttach(g) ==
    /\ pc[g] = "attach"
    /\ decorators' = [decorators EXCEPT ![loc[g].dec].attributes = loc[g].atts]
    /\ pc' = [pc EXCEPT ![g] = "op"]
    /\ UNCHANGED <<body, stores, call, loc, must>>
    /\ AttConcFrame

\* the map operation on the store attributes returned, and the return
AttOp(g) ==
    LET c == call[g]
        a == loc[g].atts
        removing == \E h \in Procs \ {g} :
                       /\ pc[h] # "idle"
                       /\ \/ call[h].op = "Clear"
                          \/ call[h].op = "Delete" /\ call[h].k = c.k
    IN  /\ pc[g] = "op"
        /\ stores' = CASE c.op = "Set" -> [stores EXCEPT ![a] = Put(@, c.k, c.val)]
                       [] c.op = "Delete" -> [stores EXCEPT ![a] = Remove(@, c.k)]
                       [] c.op = "Clear" -> [stores EXCEPT ![a] = DeleteAll(@, DOMAIN @)]
                       [] OTHER -> stores
        /\ must' = IF c.op = "Set" /\ ~removing THEN must \cup {c.k} ELSE must
        /\ pc' = [pc EXCEPT ![g] = "idle"]
        /\ call' = [call EXCEPT ![g] = NoCall]
        /\ loc' = [loc EXCEPT ![g] = NoLoc]
        /\ UNCHANGED <<body, decorators>>
        /\ AttConcFrame

NextAttached ==
    \E g \in Procs :
        \/ AttBegin(g)
        \/ AttPeek(g)
        \/ AttDecorate(g)
        \/ AttAttach(g)
        \/ AttOp(g)

SpecAttached == Init /\ [][NextAttached]_vars

\* how many decorators wrap the body b
RECURSIVE Depth(_)
Depth(b) == IF b = Orig THEN 0 ELSE 1 + Depth(decorators[b].body)

\* the body of every request is wrapped at most once, and no more stores were
\* made than requests were wrapped
C9_WrappedOnce ==
    /\ \A r \in Requests : Depth(body[r]) <= 1
    /\ Len(stores) <= Cardinality({r \in Requests : body[r] # Orig})

\* a key that a finished Set left, with no Delete of it and no Clear begun or
\* under way since, is in the store of the request
C9_SetNotLost ==
    \A r \in ConcRequests, k \in must :
        /\ peekAttributes(Heap, r)[2]
        /\ k \in DOMAIN Deref(Heap, peekAttributes(Heap, r)[1])

\* C9 (as claimed): for every interleaving of Set, Get, GetOk, Delete and Clear
\* by several goroutines on one request, the first accesses included, the body
\* is wrapped once, the store made first is never replaced, and the value of a
\* finished Set is not lost.
C9_OneStore == C9_WrappedOnce /\ C9_SetNotLost

(***************************************************************************)
(* Composite-key variant (src/unnamed/part_001): data maps a Ctxt, the     *)
(* pair of a request and a key, to the value; datat maps a request to its  *)
(* timestamp; one sync.Mutex.  SpecCtxt: one caller, each operation one    *)
(* step.                                                                   *)
(***************************************************************************)
Ctxt(r, key) == <<r, key>>

\* the keys of data that belong to request r
CtxtOf(d, r) == {c \in DOMAIN d : c[1] = r}

CtxtSet(r, key, val) ==
    /\ data' = Put(data, Ctxt(r, key), val)
    /\ datat' = IF ~Lookup(datat, r, 0)[2] THEN Put(datat, r, now) ELSE datat

CtxtGet(r, key) == Lookup(data, Ctxt(r, key), Nil)[1]

CtxtDelete(r, key) ==
    /\ data' = Remove(data, Ctxt(r, key))
    /\ datat' = datat

\* clear is Clear without the lock, as a function of the two maps
Ctxtclear(d, dt, r) == <<DeleteAll(d, CtxtOf(d, r)), Remove(dt, r)>>

CtxtClear(r) ==
    /\ data' = Ctxtclear(data, datat, r)[1]
    /\ datat' = Ctxtclear(data, datat, r)[2]

\* the loop of Purge over the keys of data still to visit; a key removed
\* before the loop reaches it is not visited
RECURSIVE CtxtPurgeLoop(_, _, _, _, _)
CtxtPurgeLoop(todo, d, dt, min, count) ==
    IF todo \cap DOMAIN d = {} THEN <<d, dt, count>>
    ELSE LET ctxt == CHOOSE x \in todo \cap DOMAIN d : TRUE
         IN  IF Lookup(dt, ctxt[1], 0)[1] < min
             THEN CtxtPurgeLoop(todo \ {ctxt}, Ctxtclear(d, dt, ctxt[1])[1],
                                Ctxtclear(d, dt, ctxt[1])[2], min, count + 1)
             ELSE CtxtPurgeLoop(todo \ {ctxt}, d, dt, min, count)

\* <<data, datat, count>> after Purge(maxAge)
CtxtPurgeResult(maxAge) ==
    IF maxAge <= 0
    THEN <<EmptyKV, EmptyKV, MapLen(data)>>
    ELSE CtxtPurgeLoop(DOMAIN data, data, datat, now - maxAge, 0)

CtxtPurge(maxAge) ==
    /\ data' = CtxtPurgeResult(maxAge)[1]
    /\ datat' = CtxtPurgeResult(maxAge)[2]

CtxtFrame == UNCHANGED <<now, last, handlerVars, concVars, attVars>>

CtxtCallSet ==
    \E r \in Requests, k \in Keys, v \in Values :
        /\ CtxtSet(r, k, v)
        /\ ret' = [NoRet EXCEPT !.op = "Set", !.r = r, !.k = k, !.val = v]
        /\ CtxtFrame

CtxtCallGet ==
    \E r \in Requests, k \in Keys :
        /\ ret' = [NoRet EXCEPT !.op = "Get", !.r = r, !.k = k, !.val = CtxtGet(r, k)]
        /\ UNCHANGED <<data, datat>>
        /\ CtxtFrame

CtxtCallDelete ==
    \E r \in Requests, k \in Keys :
        /\ CtxtDelete(r, k)
        /\ ret' = [NoRet EXCEPT !.op = "Delete", !.r = r, !.k = k]
        /\ CtxtFrame

CtxtCallClear ==
    \E r \in Requests :
        /\ CtxtClear(r)
        /\ ret' = [NoRet EXCEPT !.op = "Clear", !.r = r]
        /\ CtxtFrame

CtxtCallPurge ==
    \E maxAge \in Ages :
        /\ CtxtPurge(maxAge)
        /\ ret' = [NoRet EXCEPT !.op = "Purge", !.age = maxAge,
                                !.count = CtxtPurgeResult(maxAge)[3]]
        /\ CtxtFrame

NextCtxt ==
    \/ CtxtCallSet
    \/ CtxtCallGet
    \/ CtxtCallDelete
    \/ CtxtCallClear
    \/ CtxtCallPurge
    \/ Tick

SpecCtxt == Init /\ [][NextCtxt]_vars

\* the requests that have at least one key in data
CtxtRequests(d) == {c[1] : c \in DOMAIN d}

\* C15 (as claimed): Purge returns the number of requests removed - for
\* maxAge <= 0 the number of distinct requests that had stored data before
\* the call, for maxAge > 0 the number of distinct requests whose data it
\* removed, each request counted once however many keys it had.
C15_PurgeCountsRequests ==
    [][ret'.op = "Purge"
         => /\ ret'.age <= 0
                 => ret'.count = Cardinality(CtxtRequests(data))
            /\ ret'.age > 0
                 => ret'.count = Cardinality(CtxtRequests(data) \ CtxtRequests(data'))
      ]_vars

\* C20 (as claimed): datat holds a timestamp only for requests that still have
\* a key in data, and after Purge(maxAge) with maxAge > 0 no request whose
\* timestamp is older than the cutoff is left in data or in datat.
C20_NoStaleTimestamp ==
    [][/\ DOMAIN datat' \subseteq CtxtRequests(data')
       /\ (ret'.op = "Purge" /\ ret'.age > 0)
            => \A r \in Requests :
                 (r \in DOMAIN datat /\ datat[r] < now - ret'.age)
                   => r \notin DOMAIN datat' /\ r \notin CtxtRequests(data')
      ]_vars

=============================================================================
